---- MODULE Spec2Model ----
(***************************************************************************)
(* Route guard (ProtectedRoute, three variants in the repository) with the *)
(* App.tsx route table, the marketplace listing loaders over the property  *)
(* catalog, the owner's marketplace settings page with its entitlement     *)
(* guard, and the back-office pages for subscriptions and plans.           *)
(***************************************************************************)
EXTENDS Integers, Sequences, FiniteSets, Bags, TLC

\* ------------------------------------------------------------------ bounds
\* checkAuth runs that may be awaiting the provider / registry at once
MaxRuns == 2
\* navigations made by the user in one behaviour
MaxNavs == 2
\* store updates of the settings page that may be in flight at once
MaxWrites == 2
MaxRooms == 2

\* ------------------------------------------------------- values and paths
Null == "null"
Undefined == "undefined"
NoRec == "norec"
NoPath == <<>>

\* A path is the sequence of its pieces, cut so that the string prefixes the
\* code tests ('/marketplace', '/backoffice') are prefixes of the sequence.
PLogin == <<"/login">>
PMarketplaceAuth == <<"/marketplace", "/auth">>
PMarketplace == <<"/marketplace">>
PMarketplaceSettings == <<"/marketplace", "-settings">>
PBackoffice == <<"/backoffice">>
PRoot == <<"/">>
PDashboard == <<"/dashboard">>
PProperties == <<"/properties">>

Paths == {PLogin, PMarketplaceAuth, PMarketplace, PMarketplaceSettings,
          PBackoffice, PRoot, PDashboard, PProperties}

\* further paths a visitor can type or reach from the marketplace navigation
PMarketplaceSaved == <<"/marketplace", "/saved">>
PMarketplaceProperty == <<"/marketplace", "/property", "/1">>
PBackofficeUsers == <<"/backoffice", "/users">>

ShellPaths == Paths \cup {PMarketplaceSaved, PMarketplaceProperty, PBackofficeUsers}

\* String.prototype.startsWith on paths
StartsWith(p, pre) == Len(p) >= Len(pre) /\ SubSeq(p, 1, Len(pre)) = pre

\* The three ProtectedRoute sources
VFile == "ProtectedRoute.tsx"
VApp == "App.tsx:34"
VAppB == "App.tsx:348"
Variants == {VFile, VApp, VAppB}

\* role values a backoffice_users record can carry (part_005 User.role)
StaffRoles == {"superadmin", "admin", "support"}
\* values of session.user.user_metadata.role (Undefined: no role in the metadata)
Claims == {Undefined, "admin", "tenant", "superadmin"}

\* properties of the catalog (properties rows)
Props == {"p1", "p2"}

\* room types of each property (room_types rows)
RoomTypeNames == {"Single", "Double"}

Genders == {"male", "female", "any"}
Statuses == {"vacant", "occupied", "maintenance"}

RT(p, n, price, g) == [prop |-> p, name |-> n, price |-> price, gender |-> g]

\* the room_types rows a catalog may hold
RoomTypeRows ==
  {RT("p1", "Single", 900000, "male"), RT("p1", "Double", 1500000, "female"),
   RT("p2", "Single", 12000000, "any"), RT("p2", "Double", 900000, "any")}

\* the rooms tables over the given ids: each id is absent or one row
NoRoom == [prop |-> "none", type |-> "none", status |-> "none"]

RoomTables(ids) ==
  {{[id |-> i, prop |-> f[i].prop, type |-> f[i].type, status |-> f[i].status] :
      i \in {j \in ids : f[j] # NoRoom}} :
     f \in [ids -> [prop : Props, type : RoomTypeNames, status : Statuses] \cup {NoRoom}]}

\* a catalog: p1 has two room types, p2 one; one vacant and one occupied room
DefaultRoomTypes ==
  {RT("p1", "Single", 900000, "male"), RT("p1", "Double", 1500000, "female"),
   RT("p2", "Single", 12000000, "any")}

DefaultRooms ==
  {[id |-> 1, prop |-> "p1", type |-> "Single", status |-> "vacant"],
   [id |-> 2, prop |-> "p1", type |-> "Single", status |-> "occupied"]}

\* ---------------------------------------------------------- entitlements
SubStatuses == {"none", "active", "cancelled", "expired"}
Plans == {"basic", "pro"}

\* feature map of a plan: a boolean feature and a graded one
PlanFeatures(plan) ==
  [loaded |-> TRUE, activeAtLoad |-> TRUE,
   marketplace_listing |-> (plan = "pro"),
   support |-> IF plan = "pro" THEN "priority" ELSE "basic"]

\* no active subscription: every boolean feature false, every graded feature lowest
NoFeatures ==
  [loaded |-> TRUE, activeAtLoad |-> FALSE, marketplace_listing |-> FALSE, support |-> "basic"]

NotLoaded ==
  [loaded |-> FALSE, activeAtLoad |-> FALSE, marketplace_listing |-> FALSE, support |-> "basic"]

\* the feature map of the owner's active subscription
LookupFeatures(sub) == IF sub.status = "active" THEN PlanFeatures(sub.plan) ELSE NoFeatures

\* ------------------------------------------------------------ route table
\* App.tsx <Routes>: kind of element, allowedRoles of the guard, and the
\* <Routes> element (group) the guard is rendered in.
RouteTable(p) ==
  IF p = PLogin \/ p = PMarketplaceAuth THEN [kind |-> "public", allowed |-> {}, group |-> "none"]
  ELSE IF p = PMarketplace \/ (Len(p) = 3 /\ SubSeq(p, 1, 2) = <<"/marketplace", "/property">>)
    THEN [kind |-> "guard", allowed |-> {"tenant"}, group |-> "top"]
  ELSE IF StartsWith(p, PBackoffice) THEN [kind |-> "guard", allowed |-> {"superadmin"}, group |-> "top"]
  ELSE IF p = PRoot THEN [kind |-> "index", allowed |-> {}, group |-> "none"]
  ELSE IF p \in {PDashboard, PProperties, PMarketplaceSettings}
    THEN [kind |-> "guard", allowed |-> {"admin"}, group |-> "app"]
  ELSE [kind |-> "nomatch", allowed |-> {}, group |-> "none"]

\* App.tsx: the layout around the element rendered for path p.  The top-level
\* <Routes> of App render /login, /marketplace/auth, /marketplace and
\* /marketplace/property/:id bare and /backoffice/* in BackofficeContent;
\* every other path falls to AppContent, which tests startsWith('/backoffice'),
\* then pathname === '/marketplace', and otherwise wraps its routes in Layout.
SelectShell(p) ==
  IF p = PLogin \/ p = PMarketplaceAuth THEN "bare"
  ELSE IF p = PMarketplace \/ (Len(p) = 3 /\ SubSeq(p, 1, 2) = <<"/marketplace", "/property">>)
    THEN "bare"
  ELSE IF StartsWith(p, PBackoffice) THEN "BackofficeLayout"
  ELSE "Layout"

\* ------------------------------------------------------------------ state
VARIABLES
  variant,          \* which ProtectedRoute source guards the routes
  staffRec,         \* role of the user's backoffice_users record, or NoRec
  claim,            \* session.user.user_metadata.role
  selectedProperty, \* useProperty().selectedProperty is set
  session,          \* the identity provider holds a session
  path,             \* location.pathname
  redirect,         \* navigate() issued and not yet taken effect
  mounted,          \* a ProtectedRoute instance is mounted
  isAuthenticated, userRole, isLoading, isBackofficeUser,  \* its useState cells
  runs,             \* checkAuth calls awaiting getSession / the registry
  subs,             \* live onAuthStateChange subscriptions
  done,             \* the checkAuth run that ended last, until the next navigation (history)
  navs,             \* navigations the user has made
  seen              \* what the ended checkAuth runs of the mounted guard for its location read and decided (history, a bag)

authVars == <<variant, staffRec, claim, selectedProperty, session, path,
              redirect, mounted, isAuthenticated, userRole, isLoading,
              isBackofficeUser, runs, subs, done, navs, seen>>

\* catalog, marketplace settings page and public marketplace pages
VARIABLES
  page,             \* the marketplace page the visitor has open
  store,            \* properties table: marketplace_enabled / marketplace_status per property
  selProp,          \* selectedProperty of the settings page ({} or one property)
  settings,         \* settings state of MarketplaceSettings
  isSaving,         \* isSaving state of MarketplaceSettings
  settingsError,    \* error state of MarketplaceSettings is set
  writes,           \* properties updates sent and not yet answered (a bag)
  listings,         \* listings state of the marketplace page (part_001)
  mkProps,          \* properties state of Marketplace.tsx / part_002
  mkError,          \* error state of Marketplace.tsx / part_002 is set
  lpData,           \* loadProperties: rows read, room types still being read
  lpPc,             \* loadProperties position
  detail,           \* property state of PropertyDetails ({} or one row)
  detailError,      \* error state of PropertyDetails is set
  pdData,           \* loadPropertyDetails: row read, awaiting Promise.all
  pdPc              \* loadPropertyDetails position

marketVars == <<page, store, selProp, settings, isSaving, settingsError, writes, listings,
                mkProps, mkError, lpData, lpPc, detail, detailError, pdData, pdPc>>

\* rows of the room_types and rooms tables
VARIABLES
  roomTypes,        \* room_types rows: [prop, name, price, gender]
  rooms             \* rooms rows: [id, prop, type, status]

catalogVars == <<roomTypes, rooms>>

\* further state of the public marketplace pages
VARIABLES
  searchQuery, cityFilter, priceRange, typeFilter, genderFilter,  \* filter useState cells
  lpBad             \* loadProperties: properties whose room-type read failed in the last load (history)

pageVars == <<searchQuery, cityFilter, priceRange, typeFilter, genderFilter, lpBad>>

\* the owner's subscription and what the owner console knows of it
VARIABLES
  subscription,     \* subscriptions row of the owner: [status, plan]
  features,         \* feature map held by useSubscriptionFeatures
  audit             \* what writes accepted by the store have done (history)

entVars == <<subscription, features, audit>>

\* the subscription plans and the back-office page that manages them
VARIABLES
  plans,            \* subscription_plans rows (their ids)
  planToDelete,     \* planToDelete state of SubscriptionPlans ({} or one plan)
  delPc,            \* handleConfirmDelete position
  planError         \* error state of SubscriptionPlans is set

boVars == <<plans, planToDelete, delPc, planError>>

vars == <<authVars, marketVars, catalogVars, pageVars, entVars, boVars>>

\* what the guard's actions, and the catalog's, leave alone
offAuth == <<marketVars, catalogVars, pageVars, entVars, boVars>>
offMarket == <<authVars, catalogVars, pageVars, entVars, boVars>>

NoRedirect == [to |-> NoPath, from |-> NoPath, why |-> "none", src |-> NoPath]
NoDone == [kind |-> "none", role |-> Null,
           nav |-> NoPath, threw |-> FALSE, render |-> "none"]

\* ------------------------------------------------------- pure helpers
\* JavaScript truthiness of a role string
Truthy(x) == x \notin {Undefined, ""}

\* const role = backofficeUser?.role || session.user.user_metadata?.role [|| 'tenant']
MutResolveRole(v, rec, c) ==
  IF Truthy(c) THEN c
  ELSE IF rec # NoRec /\ Truthy(rec) THEN rec
  ELSE IF v = VApp THEN Undefined ELSE "tenant"

ResolveRole(v, rec, c) ==
  IF rec # NoRec /\ Truthy(rec) THEN rec
  ELSE IF Truthy(c) THEN c
  ELSE IF v = VApp THEN Undefined ELSE "tenant"

\* target of the no-session redirect in checkAuth
LoginPathFor(p) == IF StartsWith(p, PMarketplace) THEN PMarketplaceAuth ELSE PLogin

\* switch (role) of the role-mismatch redirect
MutHomeFor(role) ==
  IF isLoading THEN PLogin
  ELSE CASE role = "superadmin" -> PBackoffice
         [] role = "admin" -> PProperties
         [] role = "tenant" -> PMarketplace
         [] OTHER -> PLogin

HomeFor(role) ==
  CASE role = "superadmin" -> PBackoffice
    [] role = "admin" -> PProperties
    [] role = "tenant" -> PMarketplace
    [] OTHER -> PLogin

\* what the mounted ProtectedRoute returns from its render
RenderOf(v, auth, role, loading, bo, p, sel) ==
  IF v = VApp
  THEN IF auth = Null \/ bo = Null THEN "loading"
       ELSE IF auth # "true" THEN "null"
       ELSE IF ~sel /\ p # PProperties /\ role # "tenant" /\ ~StartsWith(p, PBackoffice)
         THEN "toProperties"
       ELSE IF StartsWith(p, PBackoffice) /\ bo # "true" THEN "toRoot"
       ELSE "children"
  ELSE IF loading THEN "loading"
       ELSE IF auth # "true" THEN "null"
       ELSE "children"

Render ==
  IF mounted
  THEN RenderOf(variant, isAuthenticated, userRole, isLoading, isBackofficeUser, path, selectedProperty)
  ELSE "none"

\* a state setter called by a run: a no-op once its component instance is gone
SetIf(live, new, old) == IF live THEN new ELSE old

RemoveAt(s, i) == SubSeq(s, 1, i - 1) \o SubSeq(s, i + 1, Len(s))

\* return () => { subscription.unsubscribe() }: the cleanup of the effect run
\* that registered a subscription releases it; n subscriptions were live
MutCleanup(n) == n

Cleanup(n) == IF n > 0 THEN n - 1 ELSE 0

\* ------------------------------------------------------------ navigation
\* The location becomes p: the matched route element is rendered.  A guard
\* that stays at the same place of the same <Routes> keeps its state and
\* re-runs its effect (deps [navigate, location, allowedRoles]); otherwise
\* the old instance is unmounted and a fresh one mounted.
Goto(p) ==
  LET r == RouteTable(p)
      keep == mounted /\ r.kind = "guard" /\ RouteTable(path).group = r.group
      old == [i \in 1..Len(runs) |-> [runs[i] EXCEPT !.cur = FALSE, !.live = keep /\ @]]
  IN /\ path' = p
     /\ redirect' = NoRedirect
     /\ done' = NoDone
     /\ seen' = IF keep /\ p = path THEN seen ELSE EmptyBag
     /\ IF r.kind = "guard"
        THEN /\ Len(runs) < MaxRuns
             /\ mounted' = TRUE
             /\ runs' = Append(old, [path |-> p, allowed |-> r.allowed, pc |-> "getSession",
                                      live |-> TRUE, cur |-> TRUE])
             /\ subs' = IF variant = VApp THEN Cleanup(subs) + 1 ELSE 0
             /\ IF keep
                THEN UNCHANGED <<isAuthenticated, userRole, isLoading, isBackofficeUser>>
                ELSE /\ isAuthenticated' = Null
                     /\ userRole' = Null
                     /\ isLoading' = TRUE
                     /\ isBackofficeUser' = Null
        ELSE /\ mounted' = FALSE
             /\ runs' = old
             /\ subs' = Cleanup(subs)
             /\ isAuthenticated' = Null
             /\ userRole' = Null
             /\ isLoading' = TRUE
             /\ isBackofficeUser' = Null

\* the user (address bar, link, back button) goes to p
UserNavigate(p) ==
  /\ navs < MaxNavs
  /\ navs' = navs + 1
  /\ Goto(p)
  /\ UNCHANGED <<variant, staffRec, claim, selectedProperty, session>>
  /\ UNCHANGED offAuth

\* a navigate() issued earlier takes effect
ApplyRedirect ==
  /\ redirect.why # "none"
  /\ Goto(redirect.to)
  /\ UNCHANGED <<variant, staffRec, claim, selectedProperty, session, navs>>
  /\ UNCHANGED offAuth

\* <Route path="/" element={<Navigate to="/dashboard" replace />} />
IndexRedirect ==
  /\ RouteTable(path).kind = "index"
  /\ redirect.why = "none"
  /\ redirect' = [to |-> PDashboard, from |-> NoPath, why |-> "index", src |-> path]
  /\ UNCHANGED <<variant, staffRec, claim, selectedProperty, session, path, mounted,
                 isAuthenticated, userRole, isLoading, isBackofficeUser, runs, subs, done, navs, seen>>
  /\ UNCHANGED offAuth

\* redirects made while rendering (App.tsx guard only)
RenderRedirect ==
  /\ Render \in {"toProperties", "toRoot"}
  /\ redirect.why # "render"
  /\ redirect' = [to |-> IF Render = "toProperties" THEN PProperties ELSE PRoot,
                  from |-> NoPath, why |-> "render", src |-> path]
  /\ UNCHANGED <<variant, staffRec, claim, selectedProperty, session, path, mounted,
                 isAuthenticated, userRole, isLoading, isBackofficeUser, runs, subs, done, navs, seen>>
  /\ UNCHANGED offAuth

\* ------------------------------------------------------------- checkAuth
\* what run r was given (path, allowedRoles, the session getSession returned)
\* and how it ended; the registry record and the claim do not change
Outcome(r, kind, role, nav, threw) ==
  [path |-> r.path, allowed |-> r.allowed, sess |-> (kind # "nosession"),
   kind |-> kind, role |-> role, nav |-> nav, threw |-> threw]

\* seen with outcome o added; an outcome seen twice already is not counted again
Record(o) == IF CopiesIn(o, seen) >= 2 THEN seen ELSE seen (+) SetToBag({o})

\* An exception raised inside checkAuth by run r.  ProtectedRoute.tsx and the
\* second App.tsx guard catch it (navigate('/login'), finally
\* setIsLoading(false)); the first App.tsx guard has no try/catch, so the
\* promise rejects and nothing more happens.
Raise(i, kind, role) ==
  LET r == runs[i]
      caught == variant # VApp
  IN /\ redirect' = IF caught
                    THEN [to |-> PLogin, from |-> NoPath, why |-> "catch", src |-> r.path]
                    ELSE redirect
     /\ isLoading' = IF caught THEN SetIf(r.live, FALSE, isLoading) ELSE isLoading
     /\ runs' = RemoveAt(runs, i)
     /\ done' = [kind |-> kind, role |-> role,
                 nav |-> IF caught THEN PLogin ELSE NoPath,
                 threw |-> ~caught, render |-> IF r.live THEN Render' ELSE "gone"]
     /\ seen' = IF kind = "error" \/ ~r.live \/ r.path # path THEN seen
                ELSE Record(Outcome(r, kind, role, IF caught THEN PLogin ELSE NoPath, ~caught))

\* checkAuth run r returns normally, having called navigate(nav) or not
Finish(i, kind, role, nav, from) ==
  LET r == runs[i]
  IN /\ redirect' = IF nav # NoPath
                    THEN [to |-> nav, from |-> from, why |-> kind, src |-> r.path]
                    ELSE redirect
     /\ isLoading' = IF variant # VApp THEN SetIf(r.live, FALSE, isLoading) ELSE isLoading
     /\ runs' = RemoveAt(runs, i)
     /\ done' = [kind |-> kind, role |-> role,
                 nav |-> nav, threw |-> FALSE, render |-> IF r.live THEN Render' ELSE "gone"]
     /\ seen' = IF r.live /\ r.path = path THEN Record(Outcome(r, kind, role, nav, FALSE)) ELSE seen

\* await supabase.auth.getSession() of run i settles
GetSessionResolves(i, o) ==
  LET r == runs[i]
  IN /\ r.pc = "getSession"
     /\ UNCHANGED <<variant, staffRec, claim, selectedProperty, session, path,
                    mounted, subs, navs, userRole, isBackofficeUser>>
     /\ IF o = "throw"
        THEN /\ UNCHANGED isAuthenticated
             /\ Raise(i, "error", Null)
        ELSE IF ~session
        THEN /\ isAuthenticated' = SetIf(r.live, "false", isAuthenticated)
             /\ Finish(i, "nosession", Null, LoginPathFor(r.path), r.path)
        ELSE /\ isAuthenticated' = SetIf(r.live, "true", isAuthenticated)
             /\ runs' = [runs EXCEPT ![i].pc = "lookup"]
             /\ UNCHANGED <<redirect, isLoading, done, seen>>
     /\ UNCHANGED offAuth

\* await supabase.from('backoffice_users')...single() of run i settles
LookupResolves(i, o) ==
  LET r == runs[i]
      role == ResolveRole(variant, staffRec, claim)
  IN /\ r.pc = "lookup"
     /\ UNCHANGED <<variant, staffRec, claim, selectedProperty, session, path,
                    mounted, subs, navs, isAuthenticated>>
     /\ IF o = "throw"
        THEN /\ UNCHANGED <<userRole, isBackofficeUser>>
             /\ Raise(i, "error", Null)
        ELSE /\ isBackofficeUser' =
                  IF variant = VApp
                  THEN SetIf(r.live, IF staffRec # NoRec THEN "true" ELSE "false", isBackofficeUser)
                  ELSE isBackofficeUser
             /\ IF variant \in {VFile, VApp} /\ StartsWith(r.path, PBackoffice) /\ staffRec = NoRec
                THEN \* setError is not defined in either guard: ReferenceError
                     /\ UNCHANGED userRole
                     /\ Raise(i, "notstaff", Null)
                ELSE /\ userRole' = SetIf(r.live, role, userRole)
                     /\ IF variant = VApp
                        THEN IF role = "tenant" /\ ~StartsWith(r.path, PMarketplace)
                             THEN Finish(i, IF role \in r.allowed THEN "allow" ELSE "role",
                                         role, PMarketplace, NoPath)
                             ELSE IF role \notin r.allowed
                             THEN \* setError is not defined: ReferenceError
                                  Raise(i, "role", role)
                             ELSE Finish(i, "allow", role, NoPath, NoPath)
                        ELSE IF role \notin r.allowed
                             THEN Finish(i, "role", role, HomeFor(role), NoPath)
                             ELSE Finish(i, "allow", role, NoPath, NoPath)
     /\ UNCHANGED offAuth

\* ---------------------------------------------------------- auth events
\* supabase.auth.onAuthStateChange((_event, session) => {...}) of App.tsx
SignOut ==
  /\ session
  /\ session' = FALSE
  /\ IF subs > 0
     THEN /\ isAuthenticated' = "false"
          /\ redirect' = [to |-> PLogin, from |-> NoPath, why |-> "signout", src |-> path]
     ELSE UNCHANGED <<isAuthenticated, redirect>>
  /\ UNCHANGED <<variant, staffRec, claim, selectedProperty, path, mounted,
                 userRole, isLoading, isBackofficeUser, runs, subs, done, navs, seen>>
  /\ UNCHANGED offAuth

SignIn ==
  /\ ~session
  /\ session' = TRUE
  /\ isAuthenticated' = IF subs > 0 THEN "true" ELSE isAuthenticated
  /\ UNCHANGED <<variant, staffRec, claim, selectedProperty, path, redirect, mounted,
                 userRole, isLoading, isBackofficeUser, runs, subs, done, navs, seen>>
  /\ UNCHANGED offAuth

\* ------------------------------------------------------- specification
InitAuth ==
  /\ variant \in Variants
  /\ staffRec \in StaffRoles \cup {NoRec}
  /\ claim \in Claims
  /\ selectedProperty \in (IF variant = VApp THEN BOOLEAN ELSE {FALSE})
  /\ session \in BOOLEAN
  /\ path = PLogin
  /\ redirect = NoRedirect
  /\ mounted = FALSE
  /\ isAuthenticated = Null
  /\ userRole = Null
  /\ isLoading = TRUE
  /\ isBackofficeUser = Null
  /\ runs = <<>>
  /\ subs = 0
  /\ done = NoDone
  /\ navs = 0
  /\ seen = EmptyBag
  \* the catalog at rest, no marketplace page open
  /\ page = "none"
  /\ store = [p \in Props |-> [enabled |-> FALSE, status |-> "draft"]]
  /\ selProp = {}
  /\ settings = [enabled |-> FALSE, status |-> "draft"]
  /\ isSaving = FALSE
  /\ settingsError = FALSE
  /\ writes = EmptyBag
  /\ listings = {}
  /\ mkProps = {}
  /\ mkError = FALSE
  /\ lpData = {}
  /\ lpPc = "idle"
  /\ detail = {}
  /\ detailError = FALSE
  /\ pdData = {}
  /\ pdPc = "idle"
  \* the catalog's room types and rooms
  /\ roomTypes = DefaultRoomTypes
  /\ rooms = DefaultRooms
  \* filters of the marketplace pages at their defaults
  /\ searchQuery = <<>>
  /\ cityFilter = <<>>
  /\ priceRange = [min |-> <<>>, max |-> <<>>]
  /\ typeFilter = "all"
  /\ genderFilter = "all"
  /\ lpBad = {}
  \* the owner subscribed to the plan with marketplace listing, features loaded
  /\ subscription = [status |-> "active", plan |-> "pro"]
  /\ features = LookupFeatures([status |-> "active", plan |-> "pro"])
  /\ audit = {}
  /\ plans = Plans
  /\ planToDelete = {}
  /\ delPc = "idle"
  /\ planError = FALSE

NextAuth ==
  \/ \E p \in Paths : UserNavigate(p)
  \/ ApplyRedirect
  \/ IndexRedirect
  \/ RenderRedirect
  \/ \E i \in 1..Len(runs), o \in {"ok", "throw"} : GetSessionResolves(i, o)
  \/ \E i \in 1..Len(runs), o \in {"ok", "throw"} : LookupResolves(i, o)
  \/ SignOut
  \/ SignIn

\* the guard with the paths of the marketplace navigation and the back-office
\* pages added to what the user can open
NextShell ==
  \/ \E p \in ShellPaths : UserNavigate(p)
  \/ ApplyRedirect
  \/ IndexRedirect
  \/ RenderRedirect
  \/ \E i \in 1..Len(runs), o \in {"ok", "throw"} : GetSessionResolves(i, o)
  \/ \E i \in 1..Len(runs), o \in {"ok", "throw"} : LookupResolves(i, o)
  \/ SignOut
  \/ SignIn

\* ------------------------------------------------------------- catalog
RoomTypesOf(p) == {t \in roomTypes : t.prop = p}

\* property.rooms?.filter(room => room.type === roomType.name && room.status === 'vacant').length || 0
MutAvailableRooms(p, t) ==
  Cardinality({r \in rooms : r.prop = p /\ r.type = t.name /\ r.status # "occupied"})

AvailableRooms(p, t) ==
  Cardinality({r \in rooms : r.prop = p /\ r.type = t.name /\ r.status = "vacant"})

\* .eq('marketplace_enabled', true).eq('marketplace_status', 'published')
MutPublishedQuery(st) == {p \in Props : st[p].status = "published"}

PublishedQuery(st) == {p \in Props : st[p].enabled /\ st[p].status = "published"}

\* a row as the page keeps it; vis records whether the property was enabled
\* and published in the store when the row was read (history)
Row(p) == [pid |-> p, vis |-> store[p].enabled /\ store[p].status = "published"]

\* acc.push({...}) of loadListings: the listing of room type t of property p
Listing(p, t) ==
  [pid |-> p, type |-> t.name, price |-> t.price, gender |-> t.gender,
   available_rooms |-> AvailableRooms(p, t), vis |-> Row(p).vis]

\* properties.reduce(...) of loadListings over the rows the query returned
MutTransformListings(ps) ==
  {Listing(t.prop, t) : t \in {x \in roomTypes : x.prop \in ps /\ AvailableRooms(x.prop, x) > 0}}

TransformListings(ps) == {Listing(t.prop, t) : t \in {x \in roomTypes : x.prop \in ps}}

\* ------------------------------------------------ marketplace settings page
\* hasFeature('marketplace_listing') of useSubscriptionFeatures
HasFeature == features.loaded /\ features.marketplace_listing

\* const hasMarketplace = hasFeature('marketplace_listing') of RoomForm
RoomFormHasMarketplace == HasFeature

\* what MarketplaceSettings returns: the select-a-property notice, or
\* FeatureGuard with its fallback around the page
MutSettingsRender == IF selProp = {} THEN "select" ELSE "children"

SettingsRender ==
  IF selProp = {} THEN "select"
  ELSE IF HasFeature THEN "children" ELSE "fallback"

\* the owner of every property of the catalog, who uses the settings page
Owner(p) == "owner"
Caller == "owner"
Superadmins == {"root"}

\* room_types policies: "Property managers can manage their own room types"
\* (create_room_types / update_room_types) and the superadmin policy
RoomTypeWritePolicy(uid, p) == Owner(p) = uid \/ uid \in Superadmins

\* the owner has no active subscription: what a handler called now is recorded as
Late == subscription.status # "active"

\* useSubscriptionFeatures reads the owner's subscription (on mount, on
\* navigation); a failed read grants nothing
RefreshFeatures(ok) ==
  /\ features' = IF ok THEN LookupFeatures(subscription) ELSE NoFeatures
  /\ UNCHANGED <<subscription, audit>>
  /\ UNCHANGED <<authVars, boVars, marketVars, catalogVars, pageVars>>

\* handleCancelSubscription of the backoffice (the button is shown for an
\* active subscription): update status to 'cancelled'
CancelSubscription(ok) ==
  /\ subscription.status = "active"
  /\ subscription' = IF ok THEN [subscription EXCEPT !.status = "cancelled"] ELSE subscription
  /\ UNCHANGED <<features, audit>>
  /\ UNCHANGED <<authVars, boVars, marketVars, catalogVars, pageVars>>

\* useEffect on selectedProperty: loadSettings reads the property row
SelectProperty(p) ==
  /\ selProp' = {p}
  /\ settings' = [enabled |-> store[p].enabled, status |-> store[p].status]
  /\ settingsError' = FALSE
  /\ UNCHANGED <<page, store, isSaving, writes, listings, mkProps, mkError, lpData, lpPc,
                 detail, detailError, pdData, pdPc>>
  /\ UNCHANGED offMarket

\* the Published / Draft button: a local change of settings.marketplace_status
TogglePublishButton ==
  /\ SettingsRender = "children"
  /\ settings.enabled /\ ~isSaving
  /\ settings' = [settings EXCEPT !.status = IF @ = "published" THEN "draft" ELSE "published"]
  /\ UNCHANGED <<page, store, selProp, isSaving, settingsError, writes, listings, mkProps, mkError,
                 lpData, lpPc, detail, detailError, pdData, pdPc>>
  /\ UNCHANGED offMarket

\* handleToggleMarketplace up to its await (the checkbox is disabled while saving)
ToggleMarketplaceRequest ==
  /\ SettingsRender = "children"
  /\ ~isSaving
  /\ BagCardinality(writes) < MaxWrites
  /\ isSaving' = TRUE
  /\ settingsError' = FALSE
  /\ writes' = writes (+) SetToBag({[kind |-> "toggle", prop |-> CHOOSE p \in selProp : TRUE,
                                     enabled |-> ~settings.enabled, status |-> "keep",
                                     late |-> Late]})
  /\ UNCHANGED <<page, store, selProp, settings, listings, mkProps, mkError, lpData, lpPc,
                 detail, detailError, pdData, pdPc>>
  /\ UNCHANGED offMarket

\* handleSaveSettings up to its await
SaveSettingsRequest ==
  /\ SettingsRender = "children"
  /\ BagCardinality(writes) < MaxWrites
  /\ isSaving' = TRUE
  /\ settingsError' = FALSE
  /\ writes' = writes (+) SetToBag({[kind |-> "save", prop |-> CHOOSE p \in selProp : TRUE,
                                     enabled |-> settings.enabled, status |-> settings.status,
                                     late |-> Late]})
  /\ UNCHANGED <<page, store, selProp, settings, listings, mkProps, mkError, lpData, lpPc,
                 detail, detailError, pdData, pdPc>>
  /\ UNCHANGED offMarket

\* the store answers update w of the properties row; the handler continues
\* after its await
WriteResponse(w, ok) ==
  LET row == [enabled |-> w.enabled,
              status |-> IF w.kind = "save" THEN w.status ELSE store[w.prop].status]
  IN /\ w.kind \in {"toggle", "save"}
     /\ writes' = writes (-) SetToBag({w})
     /\ isSaving' = FALSE
     /\ IF ok
        THEN /\ store' = [store EXCEPT ![w.prop] = row]
             /\ settings' = IF w.kind = "toggle"
                            THEN [settings EXCEPT !.enabled = ~@]
                            ELSE settings
             /\ audit' = audit \cup (IF w.late /\ row # store[w.prop] THEN {"lateProperty"} ELSE {})
             /\ UNCHANGED settingsError
        ELSE /\ settingsError' = TRUE
             /\ UNCHANGED <<store, settings, audit>>
     /\ UNCHANGED <<page, selProp, listings, mkProps, mkError, lpData, lpPc,
                    detail, detailError, pdData, pdPc>>
     /\ UNCHANGED <<authVars, boVars, catalogVars, pageVars, subscription, features>>

\* rooms_type_fkey: FOREIGN KEY (type, property_id) REFERENCES
\* room_types(name, property_id) ON DELETE RESTRICT, over room types rts and rooms rms
MutRoomsTypeFkey(rts, rms) == TRUE

RoomsTypeFkey(rts, rms) ==
  \A r \in rms : \E t \in rts : t.prop = r.prop /\ t.name = r.type

\* the key the foreign key references: one room type per (name, property_id)
RoomTypesKey(rts) ==
  \A t, u \in rts : (t.prop = u.prop /\ t.name = u.name) => t = u

\* editingRoomType has no id: the form creates a room type
NoEdit == [prop |-> "none", name |-> "none", price |-> 0, gender |-> "none"]

\* what the form can hold: a new room type of the property, or the edited one
\* under any name
FormRows(old) ==
  IF old = NoEdit THEN {t \in RoomTypeRows : t.prop \in selProp}
  ELSE {[old EXCEPT !.name = n] : n \in RoomTypeNames}

\* handleSaveRoomType up to its await: insert, or update by id of the room
\* type being edited (the Save button of the form is disabled while saving)
SaveRoomTypeRequest(old, row) ==
  /\ SettingsRender = "children"
  /\ ~isSaving
  /\ row.prop \in selProp
  /\ old = NoEdit \/ old \in roomTypes
  /\ row \in FormRows(old)
  /\ BagCardinality(writes) < MaxWrites
  /\ isSaving' = TRUE
  /\ settingsError' = FALSE
  /\ writes' = writes (+) SetToBag({[kind |-> "roomType", prop |-> row.prop, old |-> old,
                                     row |-> row, late |-> Late]})
  /\ UNCHANGED <<page, store, selProp, settings, listings, mkProps, mkError, lpData, lpPc,
                 detail, detailError, pdData, pdPc>>
  /\ UNCHANGED offMarket

\* the store answers the room_types write w under its policies and
\* constraints (an update whose row is gone changes nothing and is no error);
\* on success the handler awaits loadSettings (ld: it succeeds), which sets
\* the settings from the property row
RoomTypeWriteResponse(w, ok, ld) ==
  LET after == IF w.old = NoEdit THEN roomTypes \cup {w.row}
               ELSE IF w.old \in roomTypes THEN (roomTypes \ {w.old}) \cup {w.row}
               ELSE roomTypes
      accepted == /\ ok
                  /\ RoomTypeWritePolicy(Caller, w.prop)
                  /\ RoomTypesKey(after)
                  /\ (w.old = NoEdit => w.row \notin roomTypes)
                  /\ RoomsTypeFkey(after, rooms)
  IN /\ w.kind = "roomType"
     /\ writes' = writes (-) SetToBag({w})
     /\ isSaving' = FALSE
     /\ IF accepted
        THEN /\ roomTypes' = after
             /\ audit' = audit \cup (IF w.late /\ after # roomTypes THEN {"lateRoomType"} ELSE {})
                                \cup (IF ~LookupFeatures(subscription).marketplace_listing
                                      THEN {"unentitledRoomType"} ELSE {})
             /\ settings' = IF ld THEN [enabled |-> store[w.prop].enabled,
                                        status |-> store[w.prop].status]
                                  ELSE settings
             /\ settingsError' = IF ld THEN FALSE ELSE TRUE
        ELSE /\ settingsError' = TRUE
             /\ UNCHANGED <<roomTypes, audit, settings>>
     /\ UNCHANGED <<page, store, selProp, listings, mkProps, mkError, lpData, lpPc,
                    detail, detailError, pdData, pdPc>>
     /\ UNCHANGED <<authVars, boVars, rooms, pageVars, subscription, features>>

\* handleDeleteRoomType (confirmed by the user): delete by id, then
\* loadSettings; an error of the store sets the error and changes nothing
DeleteRoomType(t, ok) ==
  LET after == roomTypes \ {t}
      accepted == ok /\ RoomTypeWritePolicy(Caller, t.prop) /\ RoomsTypeFkey(after, rooms)
  IN /\ SettingsRender = "children"
     /\ t \in roomTypes
     /\ t.prop \in selProp
     /\ IF accepted
        THEN /\ roomTypes' = after
             /\ settings' = [enabled |-> store[t.prop].enabled, status |-> store[t.prop].status]
             /\ settingsError' = FALSE
             /\ UNCHANGED audit
        ELSE /\ settingsError' = TRUE
             /\ audit' = audit \cup (IF ok /\ ~RoomsTypeFkey(after, rooms)
                                     THEN {"deleteRefused"} ELSE {})
             /\ UNCHANGED <<roomTypes, settings>>
     /\ UNCHANGED <<page, store, selProp, isSaving, writes, listings, mkProps, mkError,
                    lpData, lpPc, detail, detailError, pdData, pdPc>>
     /\ UNCHANGED <<authVars, boVars, rooms, pageVars, subscription, features>>

\* RoomForm handleSubmit: the form data of a new room, or of room r.id being
\* edited, is written to the rooms table
SaveRoom(r, ok) ==
  LET after == {x \in rooms : x.id # r.id} \cup {r}
  IN /\ r.prop \in selProp
     /\ rooms' = IF ok /\ RoomsTypeFkey(roomTypes, after) THEN after ELSE rooms
     /\ UNCHANGED roomTypes
     /\ UNCHANGED <<authVars, boVars, marketVars, pageVars, entVars>>

\* ------------------------------------------------- subscription plans
\* SubscriptionForm submit in the back office: the user gets an active
\* subscription to one of the plans
CreateSubscription(plan) ==
  /\ subscription.status # "active"
  /\ plan \in plans
  /\ subscription' = [status |-> "active", plan |-> plan]
  /\ UNCHANGED <<features, audit>>
  /\ UNCHANGED <<authVars, marketVars, catalogVars, pageVars, boVars>>

\* handleSubmit of SubscriptionPlans without editingPlan: insert of a plan
SavePlan(plan) ==
  /\ plan \notin plans
  /\ plans' = plans \cup {plan}
  /\ UNCHANGED <<planToDelete, delPc, planError>>
  /\ UNCHANGED <<authVars, marketVars, catalogVars, pageVars, entVars>>

\* handleDeleteClick and the confirmation: handleConfirmDelete up to its
\* first await, the read of the plan's active subscriptions
ConfirmDelete(plan) ==
  /\ delPc = "idle"
  /\ plan \in plans
  /\ planToDelete' = {plan}
  /\ planError' = FALSE
  /\ delPc' = "check"
  /\ UNCHANGED plans
  /\ UNCHANGED <<authVars, marketVars, catalogVars, pageVars, entVars>>

\* the read answers: an error or an active subscription ends the handler
\* with the error set; otherwise the delete is sent
DeleteCheckResolves(ok) ==
  LET active == \E p \in planToDelete : subscription.status = "active" /\ subscription.plan = p
  IN /\ delPc = "check"
     /\ IF ok /\ ~active
        THEN /\ delPc' = "delete"
             /\ UNCHANGED <<planToDelete, planError>>
        ELSE /\ delPc' = "idle"
             /\ planError' = TRUE
             /\ UNCHANGED planToDelete
     /\ UNCHANGED plans
     /\ UNCHANGED <<authVars, marketVars, catalogVars, pageVars, entVars>>

\* the delete answers; on success loadPlans, setPlanToDelete(null)
DeleteResolves(ok) ==
  /\ delPc = "delete"
  /\ delPc' = "idle"
  /\ IF ok
     THEN /\ plans' = plans \ planToDelete
          /\ planToDelete' = {}
          /\ UNCHANGED planError
     ELSE /\ planError' = TRUE
          /\ UNCHANGED <<plans, planToDelete>>
  /\ UNCHANGED <<authVars, marketVars, catalogVars, pageVars, entVars>>

\* ------------------------------------------------------------ page text
\* Strings the filters search are sequences of characters.
Upper == ("A" :> "a") @@ ("B" :> "b") @@ ("D" :> "d") @@ ("J" :> "j") @@
         ("K" :> "k") @@ ("S" :> "s")

\* String.prototype.toLowerCase
ToLowerCase(str) ==
  [i \in 1..Len(str) |-> IF str[i] \in DOMAIN Upper THEN Upper[str[i]] ELSE str[i]]

\* String.prototype.includes
Includes(str, q) ==
  \E i \in 1..(Len(str) - Len(q) + 1) : SubSeq(str, i, i + Len(q) - 1) = q

\* columns of the properties rows (description is nullable: {} is null)
PropName(p) == IF p = "p1" THEN <<"K", "o", "s", "A">> ELSE <<"K", "o", "s", "B">>
PropCity(p) == IF p = "p1" THEN <<"B", "a", "l", "i">> ELSE <<"S", "o", "l", "o">>
PropAddress(p) == IF p = "p1" THEN <<"J", "l", "1">> ELSE <<"J", "l", "2">>
PropDescription(p) == IF p = "p1" THEN {<<"n", "e", "w">>} ELSE {}

TypeText(n) == IF n = "Single" THEN <<"S", "g", "l">> ELSE <<"D", "b", "l">>

\* <option value="all"> of the city select of Marketplace.tsx
AllCities == <<"a", "l", "l">>

\* what a visitor types into the search box
Queries == {<<>>, <<"a">>, <<"A">>, <<"s", "o", "l">>, <<"1">>}

\* what a visitor types into the price inputs (type="number")
PriceInputs == {<<>>, <<"0">>, <<"1", "0", "0", "0", "0", "0", "0">>,
                <<"2", "0", "0", "0", "0", "0", "0", "0">>}

DigitValue == ("0" :> 0) @@ ("1" :> 1) @@ ("2" :> 2) @@ ("3" :> 3) @@ ("4" :> 4) @@
              ("5" :> 5) @@ ("6" :> 6) @@ ("7" :> 7) @@ ("8" :> 8) @@ ("9" :> 9)

\* parseInt of a string of decimal digits
RECURSIVE ParseInt(_)
ParseInt(str) ==
  IF Len(str) = 0 THEN 0
  ELSE 10 * ParseInt(SubSeq(str, 1, Len(str) - 1)) + DigitValue[str[Len(str)]]

\* --------------------------------------------- listing page (part_001)
\* useState({ min: 0, max: 10000000 }): the page has no control that calls setPriceRange
ListingPriceRange == [min |-> 0, max |-> 10000000]

\* name: `${property.name} - ${roomType.name}`
ListingName(l) == PropName(l.pid) \o <<" ", "-", " ">> \o TypeText(l.type)

\* description: roomType.description || property.description || ''
ListingDescription(l) ==
  IF PropDescription(l.pid) = {} THEN <<>> ELSE CHOOSE d \in PropDescription(l.pid) : TRUE

ListingMatchesSearch(l) ==
  \/ Includes(ToLowerCase(ListingName(l)), ToLowerCase(searchQuery))
  \/ Includes(ToLowerCase(ListingDescription(l)), ToLowerCase(searchQuery))
  \/ Includes(ToLowerCase(PropAddress(l.pid)), ToLowerCase(searchQuery))

ListingMatchesCity(l) ==
  cityFilter = <<>> \/ ToLowerCase(PropCity(l.pid)) = ToLowerCase(cityFilter)

ListingMatchesPrice(l) ==
  l.price >= ListingPriceRange.min /\ l.price <= ListingPriceRange.max

ListingMatchesType(l) == typeFilter = "all" \/ l.type = typeFilter

ListingMatchesGender(l) ==
  genderFilter = "all" \/ l.gender = genderFilter \/ l.gender = "any"

\* const filteredListings = listings.filter(...)
FilteredListings ==
  {l \in listings : /\ ListingMatchesSearch(l) /\ ListingMatchesCity(l) /\ ListingMatchesPrice(l)
                    /\ ListingMatchesType(l) /\ ListingMatchesGender(l)}

\* ------------------------------- property page (Marketplace.tsx, part_002)
\* property.description?.toLowerCase().includes(...): undefined for a null description
PropertyMatchesSearch(r) ==
  \/ Includes(ToLowerCase(PropName(r.pid)), ToLowerCase(searchQuery))
  \/ Includes(ToLowerCase(PropCity(r.pid)), ToLowerCase(searchQuery))
  \/ \E d \in PropDescription(r.pid) : Includes(ToLowerCase(d), ToLowerCase(searchQuery))

PropertyMatchesCity(r) == cityFilter = AllCities \/ PropCity(r.pid) = cityFilter

\* Math.min(...prices) and Math.max(...prices) of a property with room types
LowestPrice(r) == CHOOSE x \in {t.price : t \in r.types} : \A t \in r.types : x <= t.price
HighestPrice(r) == CHOOSE x \in {t.price : t \in r.types} : \A t \in r.types : x >= t.price

\* without room types Math.min() is Infinity and Math.max() is -Infinity:
\* both comparisons are true
PropertyMatchesPrice(r) ==
  /\ priceRange.min = <<>> \/ r.types = {} \/ LowestPrice(r) >= ParseInt(priceRange.min)
  /\ priceRange.max = <<>> \/ r.types = {} \/ HighestPrice(r) <= ParseInt(priceRange.max)

\* const filteredProperties = properties.filter(...)
FilteredProperties ==
  {r \in mkProps : PropertyMatchesSearch(r) /\ PropertyMatchesCity(r) /\ PropertyMatchesPrice(r)}

\* ------------------------------------------------------ filter controls
\* onChange of the search box (both pages)
SetSearchQuery(q) ==
  /\ page \in {"listings", "properties"}
  /\ searchQuery' = q
  /\ UNCHANGED <<cityFilter, priceRange, typeFilter, genderFilter, lpBad>>
  /\ UNCHANGED <<authVars, boVars, marketVars, catalogVars, entVars>>

\* onChange of the city select: All, or one of the cities of the loaded rows
SetCityFilter(c) ==
  /\ \/ page = "listings" /\ c \in {<<>>} \cup {PropCity(l.pid) : l \in listings}
     \/ page = "properties" /\ c \in {AllCities} \cup {PropCity(r.pid) : r \in mkProps}
  /\ cityFilter' = c
  /\ UNCHANGED <<searchQuery, priceRange, typeFilter, genderFilter, lpBad>>
  /\ UNCHANGED <<authVars, boVars, marketVars, catalogVars, entVars>>

\* onChange of the type select of the listing page
SetTypeFilter(t) ==
  /\ page = "listings"
  /\ t \in {"all"} \cup {l.type : l \in listings}
  /\ typeFilter' = t
  /\ UNCHANGED <<searchQuery, cityFilter, priceRange, genderFilter, lpBad>>
  /\ UNCHANGED <<authVars, boVars, marketVars, catalogVars, entVars>>

\* onChange of the gender select of the listing page
SetGenderFilter(g) ==
  /\ page = "listings"
  /\ g \in {"all", "male", "female"}
  /\ genderFilter' = g
  /\ UNCHANGED <<searchQuery, cityFilter, priceRange, typeFilter, lpBad>>
  /\ UNCHANGED <<authVars, boVars, marketVars, catalogVars, entVars>>

\* onChange of the price inputs of the property page
SetPriceRange(k, v) ==
  /\ page = "properties"
  /\ priceRange' = IF k = "min" THEN [priceRange EXCEPT !.min = v]
                                ELSE [priceRange EXCEPT !.max = v]
  /\ UNCHANGED <<searchQuery, cityFilter, typeFilter, genderFilter, lpBad>>
  /\ UNCHANGED <<authVars, boVars, marketVars, catalogVars, entVars>>

\* ------------------------------------------------------ marketplace pages
\* The visitor opens one of the marketplace pages: the listing page of
\* part_001, the property page of Marketplace.tsx / part_002, or
\* PropertyDetails.  The page left is unmounted and its state is gone.
OpenPage(pg) ==
  /\ page # pg
  /\ page' = pg
  /\ listings' = {}
  /\ mkProps' = {}
  /\ mkError' = FALSE
  /\ lpData' = {}
  /\ lpPc' = IF pg = "properties" THEN "query" ELSE "idle"
  /\ detail' = {}
  /\ detailError' = FALSE
  /\ pdData' = {}
  /\ pdPc' = "idle"
  /\ searchQuery' = <<>>
  /\ cityFilter' = IF pg = "properties" THEN AllCities ELSE <<>>
  /\ priceRange' = [min |-> <<>>, max |-> <<>>]
  /\ typeFilter' = "all"
  /\ genderFilter' = "all"
  /\ lpBad' = {}
  /\ UNCHANGED <<store, selProp, settings, isSaving, settingsError, writes>>
  /\ UNCHANGED <<authVars, boVars, entVars, catalogVars>>

\* loadListings (part_001): one query with embedded room types, then the transform
LoadListings(ok) ==
  /\ page = "listings"
  /\ listings' = IF ok THEN TransformListings(PublishedQuery(store)) ELSE {}
  /\ UNCHANGED <<page, store, selProp, settings, isSaving, settingsError, writes, mkProps, mkError,
                 lpData, lpPc, detail, detailError, pdData, pdPc>>
  /\ UNCHANGED offMarket

\* loadProperties (Marketplace.tsx, part_002), called once by the mount
\* effect (useEffect(..., [])): the properties query
LoadPropertiesQuery(ok) ==
  /\ page = "properties"
  /\ lpPc = "query"
  /\ mkError' = ~ok
  /\ lpBad' = {}
  /\ IF ok
     THEN /\ lpData' = {Row(p) : p \in PublishedQuery(store)}
          /\ lpPc' = "roomTypes"
     ELSE /\ lpData' = {}
          /\ lpPc' = "idle"
  /\ UNCHANGED <<page, store, selProp, settings, isSaving, settingsError, writes, listings, mkProps,
                 detail, detailError, pdData, pdPc>>
  /\ UNCHANGED <<authVars, boVars, entVars, catalogVars, searchQuery, cityFilter, priceRange, typeFilter, genderFilter>>

\* loadProperties: the room-type reads, one per property, end; the read of
\* each property in bad fails.  The first failure is thrown to the catch;
\* with none, setProperties and setRoomTypes.  lpData is kept after a
\* failure as the rows that load had read (history).
LoadPropertiesFinish(bad) ==
  LET failed == {r.pid : r \in lpData} \cap bad
  IN /\ lpPc = "roomTypes"
     /\ lpPc' = "idle"
     /\ lpBad' = failed
     /\ lpData' = IF failed = {} THEN {} ELSE lpData
     /\ mkProps' = IF failed = {}
                   THEN {[pid |-> r.pid, vis |-> r.vis, types |-> RoomTypesOf(r.pid)] : r \in lpData}
                   ELSE mkProps
     /\ mkError' = (failed # {})
     /\ UNCHANGED <<page, store, selProp, settings, isSaving, settingsError, writes, listings,
                    detail, detailError, pdData, pdPc>>
     /\ UNCHANGED <<authVars, boVars, entVars, catalogVars, searchQuery, cityFilter, priceRange, typeFilter, genderFilter>>

\* loadPropertyDetails: the property query of its Promise.all
LoadDetailsQuery(id) ==
  /\ page = "details"
  /\ pdPc = "idle"
  /\ pdPc' = "await"
  /\ detailError' = FALSE
  /\ pdData' = {Row(p) : p \in PublishedQuery(store) \cap {id}}
  /\ UNCHANGED <<page, store, selProp, settings, isSaving, settingsError, writes, listings, mkProps,
                 mkError, lpData, lpPc, detail>>
  /\ UNCHANGED offMarket

\* loadPropertyDetails: Promise.all settles; setProperty, or the catch
LoadDetailsFinish(ok) ==
  /\ pdPc = "await"
  /\ pdPc' = "idle"
  /\ pdData' = {}
  /\ IF ok /\ pdData # {}
     THEN /\ detail' = pdData
          /\ UNCHANGED detailError
     ELSE /\ detailError' = TRUE
          /\ UNCHANGED detail
  /\ UNCHANGED <<page, store, selProp, settings, isSaving, settingsError, writes, listings, mkProps,
                 mkError, lpData, lpPc>>
  /\ UNCHANGED offMarket

InitMarket ==
  \* no navigation: the guard is not mounted
  /\ variant = VFile
  /\ staffRec = NoRec
  /\ claim = Undefined
  /\ selectedProperty = FALSE
  /\ session = FALSE
  /\ path = PLogin
  /\ redirect = NoRedirect
  /\ mounted = FALSE
  /\ isAuthenticated = Null
  /\ userRole = Null
  /\ isLoading = TRUE
  /\ isBackofficeUser = Null
  /\ runs = <<>>
  /\ subs = 0
  /\ done = NoDone
  /\ navs = 0
  /\ seen = EmptyBag
  \* column defaults of the catalog, pages in their initial state
  /\ page = "none"
  /\ store = [p \in Props |-> [enabled |-> FALSE, status |-> "draft"]]
  /\ selProp = {}
  /\ settings = [enabled |-> FALSE, status |-> "draft"]
  /\ isSaving = FALSE
  /\ settingsError = FALSE
  /\ writes = EmptyBag
  /\ listings = {}
  /\ mkProps = {}
  /\ mkError = FALSE
  /\ lpData = {}
  /\ lpPc = "idle"
  /\ detail = {}
  /\ detailError = FALSE
  /\ pdData = {}
  /\ pdPc = "idle"
  \* the catalog's room types and rooms
  /\ roomTypes = DefaultRoomTypes
  /\ rooms = DefaultRooms
  \* filters of the marketplace pages at their defaults
  /\ searchQuery = <<>>
  /\ cityFilter = <<>>
  /\ priceRange = [min |-> <<>>, max |-> <<>>]
  /\ typeFilter = "all"
  /\ genderFilter = "all"
  /\ lpBad = {}
  \* the owner subscribed to the plan with marketplace listing, features loaded
  /\ subscription = [status |-> "active", plan |-> "pro"]
  /\ features = LookupFeatures([status |-> "active", plan |-> "pro"])
  /\ audit = {}
  /\ plans = Plans
  /\ planToDelete = {}
  /\ delPc = "idle"
  /\ planError = FALSE

NextMarket ==
  \/ \E p \in Props : SelectProperty(p)
  \/ TogglePublishButton
  \/ ToggleMarketplaceRequest
  \/ SaveSettingsRequest
  \/ \E w \in BagToSet(writes), ok \in BOOLEAN : WriteResponse(w, ok)
  \/ \E pg \in {"listings", "properties", "details"} : OpenPage(pg)
  \/ \E ok \in BOOLEAN : LoadListings(ok)
  \/ \E ok \in BOOLEAN : LoadPropertiesQuery(ok)
  \/ \E bad \in SUBSET Props : LoadPropertiesFinish(bad)
  \/ \E id \in Props : LoadDetailsQuery(id)
  \/ \E ok \in BOOLEAN : LoadDetailsFinish(ok)

\* the route guard, with the catalog at rest
SpecAuth == InitAuth /\ [][NextAuth]_vars

\* the catalog and the marketplace pages, with no navigation
SpecMarket == InitMarket /\ [][NextMarket]_vars

\* --------------------------------------------- listing derivation alone
\* no navigation: the guard is not mounted
GuardAtRest ==
  /\ variant = VFile
  /\ staffRec = NoRec
  /\ claim = Undefined
  /\ selectedProperty = FALSE
  /\ session = FALSE
  /\ path = PLogin
  /\ redirect = NoRedirect
  /\ mounted = FALSE
  /\ isAuthenticated = Null
  /\ userRole = Null
  /\ isLoading = TRUE
  /\ isBackofficeUser = Null
  /\ runs = <<>>
  /\ subs = 0
  /\ done = NoDone
  /\ navs = 0
  /\ seen = EmptyBag

\* no marketplace page open, the settings page not used
PagesAtRest ==
  /\ page = "none"
  /\ selProp = {}
  /\ settings = [enabled |-> FALSE, status |-> "draft"]
  /\ isSaving = FALSE
  /\ settingsError = FALSE
  /\ writes = EmptyBag
  /\ listings = {}
  /\ mkProps = {}
  /\ mkError = FALSE
  /\ lpData = {}
  /\ lpPc = "idle"
  /\ detail = {}
  /\ detailError = FALSE
  /\ pdData = {}
  /\ pdPc = "idle"
  /\ searchQuery = <<>>
  /\ cityFilter = <<>>
  /\ priceRange = [min |-> <<>>, max |-> <<>>]
  /\ typeFilter = "all"
  /\ genderFilter = "all"
  /\ lpBad = {}
  \* the owner subscribed to the plan with marketplace listing, features loaded
  /\ subscription = [status |-> "active", plan |-> "pro"]
  /\ features = LookupFeatures([status |-> "active", plan |-> "pro"])
  /\ audit = {}
  /\ plans = Plans
  /\ planToDelete = {}
  /\ delPc = "idle"
  /\ planError = FALSE

\* any catalog: each property published, enabled or not, with any of the
\* room types and up to MaxRooms rooms
InitCatalog ==
  /\ GuardAtRest
  /\ PagesAtRest
  /\ store \in [Props -> [enabled : BOOLEAN, status : {"published"}]]
  /\ roomTypes \in SUBSET RoomTypeRows
  /\ rooms \in RoomTables(1..MaxRooms)
  /\ RoomsTypeFkey(roomTypes, rooms)

NextCatalog ==
  \/ \E pg \in {"listings", "properties"} : OpenPage(pg)
  \/ \E ok \in BOOLEAN : LoadListings(ok)
  \/ \E ok \in BOOLEAN : LoadPropertiesQuery(ok)
  \/ \E bad \in SUBSET Props : LoadPropertiesFinish(bad)

\* the marketplace pages loading from any catalog
SpecCatalog == InitCatalog /\ [][NextCatalog]_vars

\* ------------------------------------------- the owner's entitlement
\* any subscription of the owner; the console has not read it yet
InitEntitle ==
  /\ GuardAtRest
  /\ page = "none"
  /\ selProp = {}
  /\ settings = [enabled |-> FALSE, status |-> "draft"]
  /\ isSaving = FALSE
  /\ settingsError = FALSE
  /\ writes = EmptyBag
  /\ listings = {}
  /\ mkProps = {}
  /\ mkError = FALSE
  /\ lpData = {}
  /\ lpPc = "idle"
  /\ detail = {}
  /\ detailError = FALSE
  /\ pdData = {}
  /\ pdPc = "idle"
  /\ searchQuery = <<>>
  /\ cityFilter = <<>>
  /\ priceRange = [min |-> <<>>, max |-> <<>>]
  /\ typeFilter = "all"
  /\ genderFilter = "all"
  /\ lpBad = {}
  /\ store = [p \in Props |-> [enabled |-> FALSE, status |-> "draft"]]
  /\ roomTypes = {}
  /\ rooms = {}
  /\ subscription \in [status : SubStatuses, plan : Plans]
  /\ features = NotLoaded
  /\ audit = {}
  /\ plans = Plans
  /\ planToDelete = {}
  /\ delPc = "idle"
  /\ planError = FALSE

\* the property the owner works on in the settings page
OwnerProps == {"p1"}

NextEntitle ==
  \/ \E ok \in BOOLEAN : RefreshFeatures(ok)
  \/ \E ok \in BOOLEAN : CancelSubscription(ok)
  \/ \E p \in OwnerProps : SelectProperty(p)
  \/ TogglePublishButton
  \/ ToggleMarketplaceRequest
  \/ SaveSettingsRequest
  \/ \E old \in roomTypes \cup {NoEdit}, row \in RoomTypeRows : SaveRoomTypeRequest(old, row)
  \/ \E w \in BagToSet(writes), ok \in BOOLEAN : WriteResponse(w, ok)
  \/ \E w \in BagToSet(writes), ok, ld \in BOOLEAN : RoomTypeWriteResponse(w, ok, ld)

\* the settings page of an owner whose subscription may be cancelled
SpecEntitle == InitEntitle /\ [][NextEntitle]_vars

\* --------------------------------------------- room types and rooms
\* the owner's console on the default catalog with any of its rooms, which
\* all have a type
InitRooms ==
  /\ GuardAtRest
  /\ PagesAtRest
  /\ store = [p \in Props |-> [enabled |-> FALSE, status |-> "draft"]]
  /\ roomTypes = DefaultRoomTypes
  /\ rooms \in SUBSET DefaultRooms

NextRooms ==
  \/ \E p \in OwnerProps : SelectProperty(p)
  \/ \E old \in roomTypes \cup {NoEdit} :
       \E row \in RoomTypeRows \cup FormRows(old) : SaveRoomTypeRequest(old, row)
  \/ \E w \in BagToSet(writes), ok, ld \in BOOLEAN : RoomTypeWriteResponse(w, ok, ld)
  \/ \E t \in roomTypes, ok \in BOOLEAN : DeleteRoomType(t, ok)
  \/ \E i \in 1..MaxRooms, p \in Props, n \in RoomTypeNames, st \in Statuses, ok \in BOOLEAN :
       SaveRoom([id |-> i, prop |-> p, type |-> n, status |-> st], ok)

SpecRooms == InitRooms /\ [][NextRooms]_vars

\* ------------------------------------------------- settings page alone
\* the settings page just loaded for property p1, whatever its stored row;
\* nobody else writes the row and the owner stays on the property
InitSettings ==
  /\ GuardAtRest
  /\ page = "none"
  /\ store \in [Props -> [enabled : BOOLEAN, status : {"draft", "published"}]]
  /\ store["p2"] = [enabled |-> FALSE, status |-> "draft"]
  /\ selProp = {"p1"}
  /\ settings = [enabled |-> store["p1"].enabled, status |-> store["p1"].status]
  /\ isSaving = FALSE
  /\ settingsError = FALSE
  /\ writes = EmptyBag
  /\ listings = {}
  /\ mkProps = {}
  /\ mkError = FALSE
  /\ lpData = {}
  /\ lpPc = "idle"
  /\ detail = {}
  /\ detailError = FALSE
  /\ pdData = {}
  /\ pdPc = "idle"
  /\ searchQuery = <<>>
  /\ cityFilter = <<>>
  /\ priceRange = [min |-> <<>>, max |-> <<>>]
  /\ typeFilter = "all"
  /\ genderFilter = "all"
  /\ lpBad = {}
  /\ roomTypes = DefaultRoomTypes
  /\ rooms = DefaultRooms
  /\ subscription = [status |-> "active", plan |-> "pro"]
  /\ features = LookupFeatures([status |-> "active", plan |-> "pro"])
  /\ audit = {}
  /\ plans = Plans
  /\ planToDelete = {}
  /\ delPc = "idle"
  /\ planError = FALSE

NextSettings ==
  \/ TogglePublishButton
  \/ ToggleMarketplaceRequest
  \/ SaveSettingsRequest
  \/ \E w \in BagToSet(writes), ok \in BOOLEAN : WriteResponse(w, ok)

SpecSettings == InitSettings /\ [][NextSettings]_vars

\* ------------------------------------------------------ back office
\* both plans exist; the user has any subscription
InitPlans ==
  /\ GuardAtRest
  /\ page = "none"
  /\ selProp = {}
  /\ settings = [enabled |-> FALSE, status |-> "draft"]
  /\ isSaving = FALSE
  /\ settingsError = FALSE
  /\ writes = EmptyBag
  /\ listings = {}
  /\ mkProps = {}
  /\ mkError = FALSE
  /\ lpData = {}
  /\ lpPc = "idle"
  /\ detail = {}
  /\ detailError = FALSE
  /\ pdData = {}
  /\ pdPc = "idle"
  /\ searchQuery = <<>>
  /\ cityFilter = <<>>
  /\ priceRange = [min |-> <<>>, max |-> <<>>]
  /\ typeFilter = "all"
  /\ genderFilter = "all"
  /\ lpBad = {}
  /\ store = [p \in Props |-> [enabled |-> FALSE, status |-> "draft"]]
  /\ roomTypes = DefaultRoomTypes
  /\ rooms = DefaultRooms
  /\ subscription \in [status : SubStatuses, plan : Plans]
  /\ features = NotLoaded
  /\ audit = {}
  /\ plans = Plans
  /\ planToDelete = {}
  /\ delPc = "idle"
  /\ planError = FALSE

NextPlans ==
  \/ \E plan \in Plans : CreateSubscription(plan)
  \/ \E ok \in BOOLEAN : CancelSubscription(ok)
  \/ \E plan \in Plans : SavePlan(plan)
  \/ \E plan \in Plans : ConfirmDelete(plan)
  \/ \E ok \in BOOLEAN : DeleteCheckResolves(ok)
  \/ \E ok \in BOOLEAN : DeleteResolves(ok)

SpecPlans == InitPlans /\ [][NextPlans]_vars

\* ------------------------------------------------------- filters alone
\* every property published, any of the room types
InitFilter ==
  /\ GuardAtRest
  /\ PagesAtRest
  /\ store = [p \in Props |-> [enabled |-> TRUE, status |-> "published"]]
  /\ roomTypes \in SUBSET RoomTypeRows
  /\ rooms = DefaultRooms
  /\ RoomsTypeFkey(roomTypes, rooms)

NextFilter ==
  \/ \E pg \in {"listings", "properties"} : OpenPage(pg)
  \/ \E ok \in BOOLEAN : LoadListings(ok)
  \/ \E ok \in BOOLEAN : LoadPropertiesQuery(ok)
  \/ \E bad \in SUBSET Props : LoadPropertiesFinish(bad)
  \/ \E q \in Queries : SetSearchQuery(q)
  \/ \E c \in {<<>>, AllCities} \cup {PropCity(p) : p \in Props} : SetCityFilter(c)
  \/ \E t \in {"all"} \cup RoomTypeNames : SetTypeFilter(t)
  \/ \E g \in {"all", "male", "female"} : SetGenderFilter(g)
  \/ \E k \in {"min", "max"}, v \in PriceInputs : SetPriceRange(k, v)

\* the marketplace pages being filtered
SpecFilter == InitFilter /\ [][NextFilter]_vars

SpecShell == InitAuth /\ [][NextShell]_vars

\* a user without a staff record, any guard, signed in or not
InitStall ==
  /\ variant \in Variants
  /\ staffRec = NoRec
  /\ claim \in {"admin", "tenant"}
  /\ selectedProperty = FALSE
  /\ session \in BOOLEAN
  /\ path = PLogin
  /\ redirect = NoRedirect
  /\ mounted = FALSE
  /\ isAuthenticated = Null
  /\ userRole = Null
  /\ isLoading = TRUE
  /\ isBackofficeUser = Null
  /\ runs = <<>>
  /\ subs = 0
  /\ done = NoDone
  /\ navs = 0
  /\ seen = EmptyBag
  /\ PagesAtRest
  /\ store = [p \in Props |-> [enabled |-> FALSE, status |-> "draft"]]
  /\ roomTypes = DefaultRoomTypes
  /\ rooms = DefaultRooms

\* What happens without anybody's help: the router applies a navigate() and
\* React renders.  The provider and the registry are under no obligation to
\* answer, nor the user to navigate.
SpecStall ==
  /\ InitStall
  /\ [][NextAuth]_vars
  /\ WF_vars(ApplyRedirect)
  /\ WF_vars(IndexRedirect)
  /\ WF_vars(RenderRedirect)

\* ------------------------------------------------------------ properties
Roles == {"superadmin", "admin", "tenant"}

\* the last ended run got as far as resolving a role
Resolved == done.kind \in {"allow", "role"}

\* a checkAuth run started by the latest navigation is still awaiting
CheckOutstanding == mounted /\ \E i \in 1..Len(runs) : runs[i].cur /\ runs[i].live

\* nothing is in flight and nothing rendered redirects further
Quiescent ==
  /\ runs = <<>>
  /\ redirect.why = "none"
  /\ RouteTable(path).kind # "index"
  /\ Render \notin {"toProperties", "toRoot"}

\* C1: every listing, property row and property detail the marketplace pages
\* show was read from a property that was marketplace_enabled and published
\* when it was read.
C1_OnlyPublishedShown ==
  /\ \A l \in listings : l.vis
  /\ \A r \in mkProps : r.vis
  /\ \A r \in detail : r.vis

C1_Witness ==
  /\ listings # {}
  /\ \E p \in Props : /\ ~store[p].enabled
                      /\ store[p].status = "published"
                      /\ \A l \in listings : l.pid # p

\* C2: the guard never renders its children for an authenticated session whose
\* resolved role is not in the route's allowedRoles, nor, on a /backoffice
\* path, for a user without a staff-registry record.
C2_NoDisallowedShell ==
  (Render = "children" /\ session) =>
    /\ userRole \in RouteTable(path).allowed
    /\ (StartsWith(path, PBackoffice) => staffRec # NoRec)

C4_ClaimNormalised ==
  (Resolved /\ staffRec = NoRec) =>
    done.role = (IF claim \in {"admin", "tenant"} THEN claim ELSE "tenant")

\* C5: a run that resolves a role R outside the area's allowedRoles redirects
\* to the home of R: superadmin /backoffice, admin /properties, tenant /marketplace.
C5_DeniedGoesHome ==
  (done.kind = "role" /\ done.role \in Roles) =>
    done.nav = (CASE done.role = "superadmin" -> PBackoffice
                  [] done.role = "admin" -> PProperties
                  [] done.role = "tenant" -> PMarketplace)

\* C6: the redirects come to rest only on a login page or on an area that
\* allows the resolved role, and the target chosen for role R is a route whose
\* allowedRoles contains R.
C6_NoRedirectLoops ==
  /\ (Quiescent /\ done.kind # "error") =>
       \/ RouteTable(path).kind = "public"
       \/ (Render = "children" /\ userRole \in RouteTable(path).allowed)
  /\ (redirect.why = "role" /\ ResolveRole(variant, staffRec, claim) \in Roles) =>
       ResolveRole(variant, staffRec, claim) \in RouteTable(redirect.to).allowed

\* C7: while the check of the current navigation is outstanding the guard
\* renders only the loading placeholder.
C7_PendingWhileChecking == CheckOutstanding => Render = "loading"

\* C8: a redirect issued because there is no session (by checkAuth or by the
\* auth-state-change handler) goes to /marketplace/auth for a path prefixed
\* /marketplace and to /login otherwise, with the requested path as state.from.
C8_NoSessionRedirectTarget ==
  redirect.why \in {"nosession", "signout"} =>
    /\ redirect.to = (IF StartsWith(redirect.src, PMarketplace) THEN PMarketplaceAuth ELSE PLogin)
    /\ redirect.from = redirect.src

\* C9: a checkAuth run that ends in a denial has called navigate() and has not
\* let an exception escape.
C9_DenialAlwaysRedirects ==
  done.kind \in {"nosession", "notstaff", "role"} => (done.nav # NoPath /\ ~done.threw)

\* C10: a run in which getSession or the registry lookup threw ends with the
\* children not rendered, the loading state cleared and a redirect to /login.
C10_FailureRecoverable ==
  done.kind = "error" =>
    /\ done.nav = PLogin
    /\ done.render \notin {"children", "loading"}

\* C11: a run that resolves the role of a user whose staff-registry record
\* carries a role outside {superadmin, admin, tenant} ends in an integrity
\* error: it issues no redirect to a home or login page, resolves no other
\* role in its place and leaves the children unrendered.
C11_StaffRoleIntegrityError ==
  (Resolved /\ staffRec # NoRec /\ staffRec \notin Roles) =>
    /\ done.nav = NoPath
    /\ done.role = staffRec
    /\ done.render # "children"

\* the property is both marketplace_enabled and published in the store
Visible(p) == store[p].enabled /\ store[p].status = "published"

\* C12: once loadListings has produced listings, every published property has
\* exactly one listing for each of its room types, vacant rooms or not, and a
\* published property without room types has none.
C12_OneListingPerRoomType ==
  (page = "listings" /\ listings # {}) =>
    \A p \in Props : Visible(p) =>
      /\ \A t \in roomTypes : t.prop = p =>
           Cardinality({l \in listings : l.pid = p /\ l.type = t.name}) = 1
      /\ \A l \in listings : l.pid = p => \E t \in roomTypes : t.prop = p /\ t.name = l.type

C12_Witness ==
  /\ page = "listings"
  /\ \E l \in listings : l.available_rooms = 0
  /\ \E p \in Props : Visible(p) /\ (\A t \in roomTypes : t.prop # p)
  /\ \E p \in Props : Cardinality({l \in listings : l.pid = p}) = 2

\* C13: available_rooms of the listing of (P, T) is the number of rooms of P
\* of type T that are vacant: all rooms of P and T less the occupied ones and
\* those in maintenance.
C13_AvailableRoomsCount ==
  \A l \in listings :
    LET ofType == {r \in rooms : r.prop = l.pid /\ r.type = l.type}
    IN l.available_rooms =
         Cardinality(ofType) - Cardinality({r \in ofType : r.status \in {"occupied", "maintenance"}})

C13_Witness ==
  \E l \in listings :
    /\ l.available_rooms = 1
    /\ \E r \in rooms : r.prop = l.pid /\ r.type = l.type /\ r.status = "vacant"
    /\ \E r \in rooms : r.prop = l.pid /\ r.type = l.type /\ r.status # "vacant"

\* C14: the price of every listing is the price of its own room type, and the
\* lowest and highest price the property page computes for an entry equal the
\* price of each room type shown in that entry.
C14_OwnRoomTypePrice ==
  /\ \A l \in listings : \A t \in roomTypes :
       (t.prop = l.pid /\ t.name = l.type) => l.price = t.price
  /\ \A r \in mkProps : \A t \in r.types :
       LowestPrice(r) = t.price /\ HighestPrice(r) = t.price

\* C17: when the room-type read of some property failed during loadProperties,
\* every other property that load had read is shown and the error notice is set.
C17_PartialFailureSkipsOne ==
  (page = "properties" /\ lpPc = "idle" /\ lpBad # {}) =>
    /\ \A r \in lpData : r.pid \notin lpBad => \E m \in mkProps : m.pid = r.pid
    /\ mkError

\* the predicates a visitor has supplied, each on its own
SearchSupplied == searchQuery # <<>>
CitySupplied == cityFilter \notin {<<>>, AllCities}
TypeSupplied == typeFilter # "all"
GenderSupplied == genderFilter # "all"
MinSupplied == page = "properties" /\ priceRange.min # <<>>
MaxSupplied == page = "properties" /\ priceRange.max # <<>>

\* C15: a listing (a property entry) is in the filtered result exactly when it
\* passes every predicate that was supplied; a filter not supplied excludes
\* nothing.
C15_FilterConjunction ==
  /\ \A l \in listings :
       l \in FilteredListings <=>
         /\ SearchSupplied => ListingMatchesSearch(l)
         /\ CitySupplied => ToLowerCase(PropCity(l.pid)) = ToLowerCase(cityFilter)
         /\ TypeSupplied => l.type = typeFilter
         /\ GenderSupplied => l.gender \in {genderFilter, "any"}
  /\ \A r \in mkProps :
       r \in FilteredProperties <=>
         /\ SearchSupplied => PropertyMatchesSearch(r)
         /\ CitySupplied => PropCity(r.pid) = cityFilter
         /\ (MinSupplied /\ r.types # {}) => LowestPrice(r) >= ParseInt(priceRange.min)
         /\ (MaxSupplied /\ r.types # {}) => HighestPrice(r) <= ParseInt(priceRange.max)

\* C16: the price filter keeps an entry exactly when its lowest price is at
\* least the minimum entered and its highest price at most the maximum
\* entered; a bound not entered removes nothing, whatever the price.
C16_UnsetPriceBoundUnconstrained ==
  /\ \A l \in listings : ListingMatchesPrice(l)
  /\ \A r \in mkProps :
       PropertyMatchesPrice(r) <=>
         /\ (MinSupplied /\ r.types # {}) => LowestPrice(r) >= ParseInt(priceRange.min)
         /\ (MaxSupplied /\ r.types # {}) => HighestPrice(r) <= ParseInt(priceRange.max)

C19_NoEffectAfterCancellation ==
  audit \cap {"lateProperty", "lateRoomType"} = {}

\* C20: the store accepts a room_types insert or update only for an owner whose
\* active subscription grants marketplace_listing.
C20_RoomTypeWritesNeedEntitlement ==
  "unentitledRoomType" \notin audit

\* the path is /marketplace or below it
MarketplaceArea(p) == p = PMarketplace \/ (Len(p) >= 2 /\ p[1] = "/marketplace" /\ p[2] # "-settings")

\* C21: the layout around the current page is decided by the path alone: the
\* back-office layout for a path prefixed /backoffice, no owner-console Layout
\* for /marketplace and the paths below it, the owner-console Layout for every
\* other path (the sign-in page aside).
C21_ShellByPathPrefix ==
  path # PLogin =>
    SelectShell(path) = (IF StartsWith(path, PBackoffice) THEN "BackofficeLayout"
                         ELSE IF MarketplaceArea(path) THEN "bare"
                         ELSE "Layout")

\* C22: once the session has ended and nothing is in flight any more, the
\* guard does not go on rendering its children: the sign-out alone, without a
\* new navigation, takes the protected area away.
C22_SignOutStopsChildren ==
  (~session /\ Quiescent) => Render # "children"

\* C24: two checkAuth runs of a guard that were given the same path, the same
\* allowedRoles and the same session (the registry record and the claim being
\* the same) ended the same way: the same allow, or a redirect to the same
\* target; what the first run left in the guard's state changes nothing.
C24_DecisionIdempotent ==
  \A a, b \in BagToSet(seen) :
    (a.path = b.path /\ a.allowed = b.allowed /\ a.sess = b.sess) => a = b

C24_Witness ==
  \E a \in BagToSet(seen) :
    /\ CopiesIn(a, seen) >= 2
    /\ a.kind = "role"
    /\ a.nav # NoPath
    /\ ~isLoading

\* C25: on a guarded path, whose navigation started a checkAuth of its own, a
\* redirect issued by checkAuth comes from the run of that path: a run started
\* for an earlier location, still awaiting when the newer one began, issues none.
C25_LastNavigationWins ==
  (RouteTable(path).kind = "guard" /\
   redirect.why \in {"nosession", "notstaff", "role", "allow", "catch"}) => redirect.src = path

\* C26: the guard does not show the loading placeholder forever: whenever it
\* is loading it eventually stops, whether or not getSession and the registry
\* lookup ever answer.
C26_StalledCheckEnds == [](Render = "loading" => <>(Render # "loading"))

\* C27: once the check of a mounted guard has completed, userRole is unset
\* exactly when the user is not authenticated: an authenticated user has a
\* role, and no role survives the end of the session.
C27_RoleNullIffUnauthenticated ==
  (mounted /\ runs = <<>> /\ done.kind \notin {"none", "error"}) =>
    ((userRole \in {Null, Undefined}) <=> (isAuthenticated # "true"))

\* C28: the cleanup of the guard's effect releases the auth-state-change
\* subscription its run registered: at most one subscription is live, none
\* while no guard is mounted, and a sign-out redirect is only ever issued by
\* the subscription of the mounted guard.
C28_SubscriptionReleased ==
  /\ subs <= 1
  /\ (~mounted => subs = 0)
  /\ (redirect.why = "signout" => mounted)

C28_Witness ==
  /\ variant = VApp
  /\ mounted
  /\ subs = 1
  /\ Len(runs) = 2
  /\ runs[1].live /\ ~runs[1].cur

\* C23: every room's type names a room type of the same property, whatever
\* room types were created, renamed or deleted and whatever rooms were
\* created or edited; a room type that a room references is still there
\* after its delete was refused.
C23_RoomTypeReferential ==
  \A r \in rooms : \E t \in roomTypes : t.prop = r.prop /\ t.name = r.type

C23_Witness ==
  /\ "deleteRefused" \in audit
  /\ settingsError
  /\ \E r \in rooms : r.type = "Double"
  /\ \E t \in roomTypes : t \notin RoomTypeRows

\* C29: an active subscription references a plan that exists: no
\* interleaving of plan deletion with subscription creation and cancellation
\* deletes the plan of an active subscription.
C29_ActivePlanNeverDeleted ==
  subscription.status = "active" => subscription.plan \in plans

\* C30: once no update of the settings page is in flight, the page's
\* marketplace_enabled is the stored marketplace_enabled of the selected
\* property.
C30_SettingsMatchStore ==
  writes = EmptyBag => \A p \in selProp : settings.enabled = store[p].enabled

====
